---------------------------- MODULE Spec2Model ----------------------------
(***************************************************************************)
(* Model of pixelnet/utils.py: the two batch generators                    *)
(* random_pixel_samples and stratified_pixel_samples, and the functions    *)
(* they call (augment, random_intensity_shift, random_crop, smooth_labels).*)
(*                                                                         *)
(* Arrays are functions: an (h, w) array is a function on Pix(h, w), a     *)
(* batch is a function on 0..b-1.  The channel axis of an image is carried *)
(* through every slice unchanged, so one pixel's channel vector is one     *)
(* value and the channel count is kept in the shape.  Numbers that are     *)
(* floats in the program (confidence, smoothed labels, zoom factor) are    *)
(* exact fractions: a numerator over a named denominator.                  *)
(* A function that draws random numbers is an operator that returns the    *)
(* set of results it can return.                                           *)
(***************************************************************************)
EXTENDS Integers, Sequences, FiniteSets, TLC

VARIABLES cfg, dims, images, labels, pc, err, pulls, yields,
          im_idx, sample_images, target_labels, bdims, augmented,
          crop_args, crop_off, ind, pixel_labels, encoded

vars == <<cfg, dims, images, labels, pc, err, pulls, yields,
          im_idx, sample_images, target_labels, bdims, augmented,
          crop_args, crop_off, ind, pixel_labels, encoded>>

-----------------------------------------------------------------------------
(* Bounds of the model *)

MaxPulls == 2
MaxBatch == 2
MaxPix == 2
MaxClasses == 3
MaxCrop == 2
MaxPool == 6
FracDen == 4

-----------------------------------------------------------------------------
(* Arithmetic helpers *)

Max(a, b) == IF a >= b THEN a ELSE b
Min(a, b) == IF a <= b THEN a ELSE b

(* Python's round() of the fraction n/d (n >= 0, d > 0): half to even *)
PyRound(n, d) ==
    LET q == n \div d
        r == n % d
    IN  IF 2 * r < d THEN q
        ELSE IF 2 * r > d THEN q + 1
        ELSE IF q % 2 = 0 THEN q ELSE q + 1

(* range(n): empty when n <= 0 *)
PyRange(n) == 0 .. (n - 1)

Pix(h, w) == (0 .. (h - 1)) \X (0 .. (w - 1))

Range(f) == {f[x] : x \in DOMAIN f}

RECURSIVE SumTo(_, _)
SumTo(f, n) == IF n = 0 THEN 0 ELSE f[n - 1] + SumTo(f, n - 1)


-----------------------------------------------------------------------------
(* random_intensity_shift(x, intensity_fraction): the set of arrays it can  *)
(* return.  intensity_fraction is fn / FracDen.  The offset drawn by        *)
(* np.random.uniform(-intensity, intensity) is sampled at -1, 0 and 1.      *)

Abs(a) == IF a >= 0 THEN a ELSE 0 - a

ArrMin(x) == CHOOSE m \in Range(x) : \A v \in Range(x) : m <= v
ArrMax(x) == CHOOSE m \in Range(x) : \A v \in Range(x) : m >= v

Clip(v, lo, hi) == IF v < lo THEN lo ELSE IF v > hi THEN hi ELSE v

random_intensity_shift(x, fn) ==
    LET min_x == ArrMin(x)
        max_x == ArrMax(x)
        intensityNum == fn * max_x - FracDen * min_x
        offsets == {d \in {0 - 1, 0, 1} : Abs(d) * FracDen <= Abs(intensityNum)}
    IN  {[p \in DOMAIN x |-> Clip(x[p] + d, min_x, max_x)] : d \in offsets}

-----------------------------------------------------------------------------
(* augment(I, L, ...): per image, flips, intensity shift, rotation, zoom    *)
(* and a crop back to (h, w), written over the argument arrays.             *)

(* np.flip(A, 1) and np.flip(A, 0) on an (h, w) array *)
FlipAxis1(A, h, w) == [p \in Pix(h, w) |-> A[<<p[1], w - 1 - p[2]>>]]
FlipAxis0(A, h, w) == [p \in Pix(h, w) |-> A[<<h - 1 - p[1], p[2]>>]]

(* np.random.random() < 0.5 when the flag is set *)
Coin(flag) == IF flag THEN BOOLEAN ELSE {FALSE}

(* np.random.random() sampled at u / FracDen, u in 0..FracDen-1 *)
UnitDraws == 0 .. (FracDen - 1)

(* Resampling by scipy.ndimage.  An order-0 (nearest neighbour) result with *)
(* reflect boundaries takes every output pixel from some input pixel: all   *)
(* such arrays are allowed.  A spline-interpolated image pixel is a real    *)
(* number computed from its neighbourhood, written 0 (no source pixel has   *)
(* value 0).  A rotation by angle 0 and a zoom that keeps the shape return  *)
(* the input.                                                               *)
ResampleLabel(LL, h, w, moved) ==
    IF moved THEN [Pix(h, w) -> Range(LL)] ELSE {LL}
ResampleImage(II, h, w, moved) ==
    IF moved THEN {[p \in Pix(h, w) |-> 0]} ELSE {II}

(* shape of ndi.zoom's output along an axis of length n, zoom zn / zd *)
ZoomLen(n, zn, zd) == PyRound(n * zn, zd)

(* one iteration of augment's loop: the set of [err, I, L] it can produce   *)
(* for the pair (II, LL); a is the record of augment's arguments            *)
AugmentOne(II, LL, a) ==
    LET h == a.h
        w == a.w
        S1 == {[I |-> IF fh THEN FlipAxis1(II, h, w) ELSE II,
                L |-> IF fh THEN FlipAxis1(LL, h, w) ELSE LL]
               : fh \in Coin(a.horizontal_flip)}
        S2 == UNION {{[I |-> IF fv THEN FlipAxis0(s.I, h, w) ELSE s.I,
                       L |-> IF fv THEN FlipAxis0(s.L, h, w) ELSE s.L]
                      : fv \in Coin(a.vertical_flip)} : s \in S1}
        S3 == UNION {{[I |-> x, L |-> s.L]
                      : x \in (IF a.intensity_shift > 0
                               THEN random_intensity_shift(s.I, a.intensity_shift)
                               ELSE {s.I})} : s \in S2}
        (* angle = rotation_range * random(): zero or not;                 *)
        (* zfactor = 1 + zoom_range * random() = zn / zd.                  *)
        (* ndi.rotate keeps the shape (reshape=False); ndi.zoom changes it *)
        (* to (hh, ww, cc); the crop at (y, x) brings it back to (h, w)    *)
        Resampled(s, rot, u) ==
            LET zd == FracDen * FracDen
                zn == zd + a.zoom_range * u
                hh == ZoomLen(h, zn, zd)
                ww == ZoomLen(w, zn, zd)
                cc == ZoomLen(a.c, zn, zd)
                moved == rot \/ hh # h \/ ww # w
            IN  IF cc # a.c
                THEN {[err |-> "broadcast", I |-> II, L |-> LL]}
                ELSE {[err |-> "none", I |-> i, L |-> l]
                      : x \in PyRange(Max(1, ww - w)),
                        y \in PyRange(Max(1, hh - h)),
                        i \in ResampleImage(s.I, h, w, moved),
                        l \in ResampleLabel(s.L, h, w, moved)}
    IN  UNION {UNION {Resampled(s, ru[1], ru[2])
                      : ru \in {r * a.rotation_range # 0 : r \in UnitDraws}
                               \X UnitDraws}
               : s \in S3}

RECURSIVE AugmentFrom(_, _, _, _)
AugmentFrom(idx, I, L, a) ==
    IF idx = a.num_images
    THEN {[err |-> "none", I |-> I, L |-> L]}
    ELSE UNION {IF o.err # "none"
                THEN {[err |-> o.err, I |-> I, L |-> L]}
                ELSE AugmentFrom(idx + 1, [I EXCEPT ![idx] = o.I],
                                 [L EXCEPT ![idx] = o.L], a)
                : o \in AugmentOne(I[idx], L[idx], a)}

augment(I, L, a) == AugmentFrom(0, I, L, a)

-----------------------------------------------------------------------------
(* random_crop(images, labels, cropsize): the set of [err, I, L, xx, yy]    *)

Window(A, y, x, s) == [p \in Pix(s, s) |-> A[<<y + p[1], x + p[2]>>]]

(* np.random.choice(range(n), size=b) raises on an empty range *)
CropOffsets(n, cropsize) == PyRange(n - cropsize)

random_crop(imgs, labs, cropsize, d) ==
    LET xs == CropOffsets(d.w, cropsize)
        ys == CropOffsets(d.h, cropsize)
        B  == 0 .. (d.b - 1)
    IN  IF xs = {} \/ ys = {}
        THEN {[err |-> "empty_range", I |-> <<>>, L |-> <<>>,
               xx |-> <<>>, yy |-> <<>>]}
        ELSE {[err |-> "none",
               I  |-> [idx \in B |-> Window(imgs[idx], yy[idx], xx[idx], cropsize)],
               L  |-> [idx \in B |-> Window(labs[idx], yy[idx], xx[idx], cropsize)],
               xx |-> xx, yy |-> yy]
              : xx \in [B -> xs], yy \in [B -> ys]}

-----------------------------------------------------------------------------
(* Label encoding.  A categorical array is [den, rows]: rows[i][k] / den is *)
(* the entry of row i, class k.                                             *)

to_categorical(flat, n, K) ==
    [den  |-> 1,
     rows |-> [i \in 0 .. (n - 1) |->
                 [k \in 0 .. (K - 1) |-> IF flat[i] = k THEN 1 ELSE 0]]]

(* type(confidence) is float *)
TypeIsFloat(confidence) == confidence.kind = "float"

(* type(confidence) is np.array: np.array is a function, the type of an    *)
(* array is np.ndarray, so the test is false for every value               *)
TypeIsNpArray(confidence) == FALSE

(* for cls in range(nclasses): labels[np.where(labels[...,cls])] = confidence[cls] *)
RECURSIVE MatrixLoop(_, _, _, _)
MatrixLoop(rows, cls, K, confidence) ==
    IF cls = K THEN rows
    ELSE MatrixLoop([i \in DOMAIN rows |->
                       IF rows[i][cls] # 0 THEN confidence.mat[cls] ELSE rows[i]],
                    cls + 1, K, confidence)

(* smoothing that scales the rows and leaves out the uniform floor *)
smooth_labels_no_floor(labs, confidence, K) ==
    IF TypeIsFloat(confidence)
    THEN [den  |-> labs.den * confidence.den * K,
          rows |-> [i \in DOMAIN labs.rows |->
                      [k \in 0 .. (K - 1) |->
                         labs.rows[i][k] * confidence.num * K]]]
    ELSE labs

smooth_labels(labs, confidence, K) ==
    IF TypeIsFloat(confidence)
    THEN [den  |-> labs.den * confidence.den * K,
          rows |-> [i \in DOMAIN labs.rows |->
                      [k \in 0 .. (K - 1) |->
                         labs.rows[i][k] * confidence.num * K
                         + labs.den * (confidence.den - confidence.num)]]]
    ELSE IF TypeIsNpArray(confidence)
    THEN [den  |-> labs.den * confidence.den,
          rows |-> MatrixLoop([i \in DOMAIN labs.rows |->
                                 [k \in 0 .. (K - 1) |->
                                    labs.rows[i][k] * confidence.den]],
                              0, K,
                              [confidence EXCEPT !.mat =
                                 [r \in 0 .. (K - 1) |-> [k \in 0 .. (K - 1) |->
                                    confidence.mat[r][k] * labs.den]]])]
    ELSE labs

(* np.any(confidence != 1.0) *)
NotFullConfidence(confidence, K) ==
    IF confidence.kind = "float"
    THEN confidence.num # confidence.den
    ELSE \E r, k \in 0 .. (K - 1) : confidence.mat[r][k] # confidence.den


-----------------------------------------------------------------------------
(* Inputs: the caller's tensors and the generator's arguments               *)

Gens == {"random_pixel_samples", "stratified_pixel_samples"}

(* the source tensors: every image pixel has its own value (>= 1); a label  *)
(* image is one class throughout ("perimage") or changes class from pixel   *)
(* to pixel ("raster")                                                      *)
Patterns == {"perimage", "raster"}
ImageIds == {0, 1}
Shapes == {<<1, 2>>, <<2, 3>>, <<3, 4>>}

SourceImages(d) ==
    [i \in 0 .. (d.n - 1) |->
       [p \in Pix(d.h, d.w) |-> 1 + i * d.h * d.w + p[1] * d.w + p[2]]]

SourceLabels(d, pattern, K) ==
    [i \in 0 .. (d.n - 1) |->
       [p \in Pix(d.h, d.w) |->
          IF pattern = "perimage" THEN i % K
          ELSE (i + p[1] * d.w + p[2]) % K]]

(* confidence: a float num/den in (0, 1], or a K x K array whose rows sum   *)
(* to 1: d on the diagonal and e elsewhere, d + (K-1) e = 1                 *)
FloatConfidence(num) ==
    [kind |-> "float", num |-> num, den |-> FracDen, mat |-> <<>>]
ArrayConfidence(K, d, e) ==
    [kind |-> "ndarray", num |-> 0, den |-> FracDen,
     mat |-> [r \in 0 .. (K - 1) |->
                [k \in 0 .. (K - 1) |-> IF r = k THEN d ELSE e]]]
Confidences(K) ==
    {FloatConfidence(num) : num \in 1 .. FracDen}
    \cup {ArrayConfidence(K, de[1], de[2]) :
            de \in {x \in (0 .. FracDen) \X (0 .. FracDen) :
                      x[1] + (K - 1) * x[2] = FracDen}}

(* the arguments' defaults (utils.py:103-104, 172-173) *)
Defaults ==
    [gen |-> "random_pixel_samples", batchsize |-> 1, npix |-> 1,
     hasCrop |-> FALSE, cropsize |-> 0, nclasses |-> 2,
     replace_samples |-> TRUE, categorical |-> TRUE,
     confidence |-> FloatConfidence(FracDen),
     horizontal_flip |-> FALSE, vertical_flip |-> FALSE,
     rotation_range |-> 0, zoom_range |-> 0, intensity_shift |-> 0]

CropChoices == {<<FALSE, 0>>} \cup {<<TRUE, s>> : s \in 1 .. MaxCrop}

(* configurations that vary what is sampled *)
SamplingConfigs ==
    {[Defaults EXCEPT !.gen = g, !.batchsize = b, !.npix = np,
                      !.nclasses = K, !.hasCrop = cr[1], !.cropsize = cr[2],
                      !.categorical = FALSE]
     : g \in Gens, b \in 1 .. MaxBatch, np \in 1 .. MaxPix,
       K \in 2 .. MaxClasses, cr \in CropChoices}

(* configurations that draw the batch's images without replacement *)
NoReplaceConfigs ==
    {[Defaults EXCEPT !.gen = g, !.batchsize = b, !.npix = np,
                      !.replace_samples = FALSE]
     : g \in Gens, b \in 1 .. (MaxBatch + 1), np \in 1 .. MaxPix}

(* configurations that vary the label encoding *)
EncodingConfigs ==
    UNION {{[Defaults EXCEPT !.gen = g, !.batchsize = b, !.npix = np,
                             !.nclasses = K, !.confidence = cf]
            : g \in Gens, b \in {1, 2}, np \in 1 .. MaxPix,
              cf \in Confidences(K)}
           : K \in 2 .. MaxClasses}

(* configurations that vary the augmentation: flips on a whole batch,      *)
(* intensity shift, rotation and zoom on a batch of one image              *)
FlipConfigs ==
    {[Defaults EXCEPT !.gen = g, !.batchsize = b,
                      !.hasCrop = cr[1], !.cropsize = cr[2],
                      !.horizontal_flip = hf, !.vertical_flip = vf]
     : g \in Gens, b \in 1 .. MaxBatch, cr \in {<<FALSE, 0>>, <<TRUE, 2>>},
       hf \in BOOLEAN, vf \in BOOLEAN}
ResampleConfigs ==
    {[Defaults EXCEPT !.gen = g, !.npix = np,
                      !.hasCrop = cr[1], !.cropsize = cr[2],
                      !.horizontal_flip = hf,
                      !.rotation_range = rr, !.zoom_range = zr,
                      !.intensity_shift = sh]
     : g \in Gens, np \in 1 .. MaxPix, cr \in {<<FALSE, 0>>, <<TRUE, 1>>},
       hf \in BOOLEAN, rr \in {0, 90}, zr \in {0, FracDen}, sh \in {0, 1}}

Configs == SamplingConfigs \cup NoReplaceConfigs \cup EncodingConfigs
           \cup FlipConfigs \cup ResampleConfigs

(* the number of label pixels of a batch the sampler reads *)
BatchPixels(c, sh) ==
    c.batchsize * (IF c.hasCrop THEN c.cropsize * c.cropsize ELSE sh[1] * sh[2])

Init ==
    /\ cfg \in Configs
    /\ \E sh \in Shapes, pattern \in Patterns :
         /\ sh[1] > 2 => cfg.hasCrop
         /\ sh[1] < 2 => cfg.gen = "stratified_pixel_samples"
         /\ (sh[1] > 2 /\ pattern = "raster")
              => (cfg.rotation_range = 0 /\ cfg.zoom_range = 0)
         /\ cfg.gen = "stratified_pixel_samples"
              => BatchPixels(cfg, sh) <= MaxPool
         /\ dims = [n |-> Cardinality(ImageIds), h |-> sh[1], w |-> sh[2], c |-> 1]
         /\ images = SourceImages(dims)
         /\ labels = SourceLabels(dims, pattern, cfg.nclasses)
    /\ pc = "suspended"
    /\ err = "none"
    /\ pulls = 0
    /\ yields = 0
    /\ im_idx = <<>>
    /\ sample_images = <<>>
    /\ target_labels = <<>>
    /\ bdims = [b |-> 0, h |-> 0, w |-> 0, c |-> 0]
    /\ augmented = FALSE
    /\ crop_args = <<>>
    /\ crop_off = <<>>
    /\ ind = <<>>
    /\ pixel_labels = <<>>
    /\ encoded = <<>>

-----------------------------------------------------------------------------
(* One production step of a generator, statement by statement.  Both        *)
(* generators share every statement but the coordinate sampling.  The       *)
(* tf.placeholder made before the loop is never read and is left out.       *)

source == <<cfg, dims, images, labels>>
batch == <<im_idx, sample_images, target_labels, bdims, augmented,
           crop_args, crop_off>>
sampled == <<ind, pixel_labels, encoded>>

(* an exception leaves the generator: it is finished and yields nothing *)
Raise(e) ==
    /\ pc' = "raised"
    /\ err' = e

(* np.random.choice(range(n_images), batchsize, replace=replace_samples) *)
ImageDraws(n, b, replace) ==
    {f \in [0 .. (b - 1) -> 0 .. (n - 1)] :
       replace \/ \A i, j \in 0 .. (b - 1) : i # j => f[i] # f[j]}

(* the consumer pulls: choose the batch's images and gather them; indexing *)
(* with an index array copies                                              *)
Pull ==
    /\ pc = "suspended"
    /\ pulls < MaxPulls
    /\ pulls' = pulls + 1
    /\ LET draws == ImageDraws(dims.n, cfg.batchsize, cfg.replace_samples)
       IN  IF draws = {}
           THEN /\ Raise("larger_sample_than_population")
                /\ im_idx' = <<>>
                /\ sample_images' = <<>>
                /\ target_labels' = <<>>
                /\ bdims' = [b |-> 0, h |-> 0, w |-> 0, c |-> 0]
           ELSE /\ \E f \in draws :
                     /\ im_idx' = f
                     /\ sample_images' = [b \in DOMAIN f |-> images[f[b]]]
                     /\ target_labels' = [b \in DOMAIN f |-> labels[f[b]]]
                /\ bdims' = [b |-> cfg.batchsize, h |-> dims.h, w |-> dims.w,
                             c |-> dims.c]
                /\ pc' = "selected"
                /\ err' = "none"
    /\ augmented' = FALSE
    /\ crop_args' = <<>>
    /\ crop_off' = <<>>
    /\ ind' = <<>>
    /\ pixel_labels' = <<>>
    /\ encoded' = <<>>
    /\ UNCHANGED <<source, yields>>

(* if horizontal_flip or vertical_flip or rotation_range or zoom_range *)
AugmentActive(c) ==
    c.horizontal_flip \/ c.vertical_flip \/ c.rotation_range # 0
    \/ c.zoom_range # 0

AugmentArgs ==
    [num_images |-> bdims.b, h |-> bdims.h, w |-> bdims.w, c |-> bdims.c,
     rotation_range |-> cfg.rotation_range, zoom_range |-> cfg.zoom_range,
     horizontal_flip |-> cfg.horizontal_flip,
     vertical_flip |-> cfg.vertical_flip,
     intensity_shift |-> cfg.intensity_shift]

(* a gather that returns views: a write to slot b reaches image idx[b] *)
SourceAfterOverwriteView(src, idx, written) ==
    [i \in DOMAIN src |->
       IF \E b \in DOMAIN idx : idx[b] = i
       THEN written[CHOOSE b \in DOMAIN idx : idx[b] = i]
       ELSE src[i]]

(* what augment's writes to its argument do to the tensor the argument was *)
(* gathered from: images[im_idx] is a copy, so nothing                     *)
SourceAfterOverwrite(src, idx, written) == src

AugmentStep ==
    /\ pc = "selected"
    /\ IF AugmentActive(cfg)
       THEN \E o \in augment(sample_images, target_labels, AugmentArgs) :
              /\ sample_images' = o.I
              /\ target_labels' = o.L
              /\ images' = SourceAfterOverwrite(images, im_idx, o.I)
              /\ labels' = SourceAfterOverwrite(labels, im_idx, o.L)
              /\ augmented' = TRUE
              /\ IF o.err # "none" THEN Raise(o.err)
                 ELSE pc' = "augmented" /\ err' = "none"
       ELSE /\ pc' = "augmented"
            /\ UNCHANGED <<sample_images, target_labels, images, labels,
                           augmented, err>>
    /\ UNCHANGED <<cfg, dims, pulls, yields, im_idx, bdims, crop_args,
                   crop_off, sampled>>

CropStep ==
    /\ pc = "augmented"
    /\ IF cfg.hasCrop
       THEN \E o \in random_crop(sample_images, target_labels, cfg.cropsize, bdims) :
              /\ crop_args' = [I |-> sample_images, L |-> target_labels]
              /\ crop_off' = [xx |-> o.xx, yy |-> o.yy]
              /\ IF o.err # "none"
                 THEN /\ Raise(o.err)
                      /\ UNCHANGED <<sample_images, target_labels, bdims>>
                 ELSE /\ sample_images' = o.I
                      /\ target_labels' = o.L
                      /\ bdims' = [bdims EXCEPT !.h = cfg.cropsize,
                                                !.w = cfg.cropsize]
                      /\ pc' = "cropped"
                      /\ err' = "none"
       ELSE /\ pc' = "cropped"
            /\ UNCHANGED <<sample_images, target_labels, bdims, crop_args,
                           crop_off, err>>
    /\ UNCHANGED <<source, pulls, yields, im_idx, augmented, sampled>>


-----------------------------------------------------------------------------
(* Coordinate sampling and label gathering                                  *)

Idx(b, np) == (0 .. (b - 1)) \X (0 .. (np - 1))

(* target_labels[bb, xx, yy]: numpy raises IndexError outside -n..n-1 and   *)
(* counts a negative index from the end                                     *)
IndexOK(i, n) == 0 - n <= i /\ i < n
Wrap(i, n) == IF i < 0 THEN i + n ELSE i
GatherOK(tl, d, coords) ==
    \A q \in DOMAIN coords :
        /\ IndexOK(coords[q][1], d.b)
        /\ IndexOK(coords[q][2], d.h)
        /\ IndexOK(coords[q][3], d.w)
Gather(tl, d, coords) ==
    [q \in DOMAIN coords |->
       tl[Wrap(coords[q][1], d.b)][<<Wrap(coords[q][2], d.h),
                                     Wrap(coords[q][3], d.w)>>]]

(* the coords output: row and column divided by the shape, as fractions *)
Coords(coords, d) ==
    [q \in DOMAIN coords |->
       <<coords[q][1], <<coords[q][2], d.h>>, <<coords[q][3], d.w>>>>]

(* a sampler that draws rows from 0 .. H, one past the last row *)
UniformRowsPastEnd(d) == PyRange(d.h + 1)

(* np.random.randint(sample_images.shape[1]-1, ...) and (...shape[2]-1...): *)
(* the values 0 .. high-1, an error when high <= 0                          *)
UniformRows(d) == PyRange(d.h - 1)
UniformCols(d) == PyRange(d.w - 1)

SampleUniform ==
    /\ pc = "cropped"
    /\ cfg.gen = "random_pixel_samples"
    /\ LET rows == UniformRows(bdims)
           cols == UniformCols(bdims)
       IN  IF rows = {} \/ cols = {}
           THEN /\ Raise("randint_range")
                /\ UNCHANGED <<ind, pixel_labels>>
           ELSE \E xy \in [Idx(cfg.batchsize, cfg.npix) -> rows \X cols] :
                  /\ ind' = [q \in DOMAIN xy |-> <<q[1], xy[q][1], xy[q][2]>>]
                  /\ IF GatherOK(target_labels, bdims, ind')
                     THEN /\ pixel_labels' = Gather(target_labels, bdims, ind')
                          /\ pc' = "sampled"
                          /\ err' = "none"
                     ELSE /\ Raise("index")
                          /\ UNCHANGED pixel_labels
    /\ UNCHANGED <<source, pulls, yields, batch, encoded>>

(* a pool that takes the pixels of every class *)
PoolAnyClass(tl, d, cls) ==
    (0 .. (d.b - 1)) \X (0 .. (d.h - 1)) \X (0 .. (d.w - 1))

(* np.stack(np.where(target_labels == cls), axis=1): the (b, row, col) of   *)
(* every pixel of the batch whose label is cls                              *)
Pool(tl, d, cls) ==
    {<<b, p[1], p[2]>> : b \in 0 .. (d.b - 1), p \in Pix(d.h, d.w)}
    \cap {t \in (0 .. (d.b - 1)) \X (0 .. (d.h - 1)) \X (0 .. (d.w - 1)) :
            tl[t[1]][<<t[2], t[3]>>] = cls}

(* int(batchsize*npix/nclasses) *)
PerClass(b, np, K) == (b * np) \div K

(* np.random.choice(range(m), n, replace=True) raises when m = 0, n # 0 *)
ChoiceRaises(m, n) == m = 0 /\ n # 0

(* the concatenation of the draws of the classes cls .. K-1 *)
RECURSIVE ClassDraws(_, _, _, _, _)
ClassDraws(tl, d, cls, K, n) ==
    IF cls = K THEN {<<>>}
    ELSE {x \o y : x \in [1 .. n -> Pool(tl, d, cls)],
                   y \in ClassDraws(tl, d, cls + 1, K, n)}

(* ind.reshape((batchsize, npix, 3)) raises unless the sizes agree *)
ReshapeOK(rows, b, np) == rows = b * np

SampleStratified ==
    /\ pc = "cropped"
    /\ cfg.gen = "stratified_pixel_samples"
    /\ LET K == cfg.nclasses
           n == PerClass(cfg.batchsize, cfg.npix, K)
       IN  IF \E cls \in 0 .. (K - 1) :
                 ChoiceRaises(Cardinality(Pool(target_labels, bdims, cls)), n)
           THEN /\ Raise("empty_population")
                /\ UNCHANGED <<ind, pixel_labels>>
           ELSE IF ~ReshapeOK(K * n, cfg.batchsize, cfg.npix)
           THEN /\ Raise("reshape")
                /\ UNCHANGED <<ind, pixel_labels>>
           ELSE \E flat \in ClassDraws(target_labels, bdims, 0, K, n) :
                  /\ ind' = [q \in Idx(cfg.batchsize, cfg.npix) |->
                               flat[q[1] * cfg.npix + q[2] + 1]]
                  /\ IF GatherOK(target_labels, bdims, ind')
                     THEN /\ pixel_labels' = Gather(target_labels, bdims, ind')
                          /\ pc' = "sampled"
                          /\ err' = "none"
                     ELSE /\ Raise("index")
                          /\ UNCHANGED pixel_labels
    /\ UNCHANGED <<source, pulls, yields, batch, encoded>>

(* if categorical: one-hot, smoothing unless confidence is 1.0, reshape to  *)
(* (batchsize, npix, nclasses)                                              *)
EncodeStep ==
    /\ pc = "sampled"
    /\ IF cfg.categorical
       THEN LET K    == cfg.nclasses
                np   == cfg.npix
                n    == cfg.batchsize * np
                flat == [i \in 0 .. (n - 1) |-> pixel_labels[<<i \div np, i % np>>]]
                hot  == to_categorical(flat, n, K)
                out  == IF NotFullConfidence(cfg.confidence, K)
                        THEN smooth_labels(hot, cfg.confidence, K)
                        ELSE hot
            IN  IF \E i \in 0 .. (n - 1) : flat[i] >= K
                THEN Raise("index") /\ UNCHANGED encoded
                ELSE /\ encoded' = [den  |-> out.den,
                                    rows |-> [q \in Idx(cfg.batchsize, np) |->
                                                out.rows[q[1] * np + q[2]]]]
                     /\ pc' = "encoded"
                     /\ err' = "none"
       ELSE /\ pc' = "encoded"
            /\ UNCHANGED <<encoded, err>>
    /\ UNCHANGED <<source, pulls, yields, batch, ind, pixel_labels>>

(* yield ([sample_images, coords], pixel_labels), then wait for the next pull *)
Yield ==
    /\ pc = "encoded"
    /\ pc' = "suspended"
    /\ yields' = yields + 1
    /\ UNCHANGED <<source, err, pulls, batch, sampled>>

Next ==
    \/ Pull
    \/ AugmentStep
    \/ CropStep
    \/ SampleUniform
    \/ SampleStratified
    \/ EncodeStep
    \/ Yield

Spec == Init /\ [][Next]_vars


-----------------------------------------------------------------------------
(* Properties                                                               *)

Stratified == cfg.gen = "stratified_pixel_samples"
Uniform == cfg.gen = "random_pixel_samples"

(* the last pull yielded its batch, which is still in the state *)
Yielded == pc = "suspended" /\ pulls > 0

(* C1: every coordinate (b, row, col) drawn by either sampler lies inside   *)
(* the batch's label tensor: 0 <= b < batchsize, 0 <= row < H, 0 <= col < W *)
(* with H, W the shape after augmentation and cropping                      *)
C1_CoordinatesInBounds ==
    \A q \in DOMAIN ind :
        /\ 0 <= ind[q][1] /\ ind[q][1] < cfg.batchsize
        /\ 0 <= ind[q][2] /\ ind[q][2] < bdims.h
        /\ 0 <= ind[q][3] /\ ind[q][3] < bdims.w
        /\ <<ind[q][2], ind[q][3]>> \in DOMAIN target_labels[ind[q][1]]

C1_Witness ==
    /\ Yielded /\ Uniform
    /\ cfg.hasCrop /\ augmented
    /\ DOMAIN ind = Idx(cfg.batchsize, cfg.npix)
    /\ cfg.batchsize > 1

(* number of pixels of class k in the batch the sampler reads *)
ClassCount(k) ==
    Cardinality({t \in (DOMAIN target_labels) \X Pix(bdims.h, bdims.w) :
                   target_labels[t[1]][t[2]] = k})

AllClassesPresent == \A k \in 0 .. (cfg.nclasses - 1) : ClassCount(k) > 0

SamplingDone ==
    \/ pc \in {"sampled", "encoded"}
    \/ Yielded
    \/ pc = "raised" /\ err \in {"empty_population", "reshape", "index",
                                 "randint_range"}

(* C2: when every class has a pixel in the batch, the stratified sampler's  *)
(* draws are reshaped to (B, P, 3) and the step goes on to yield, also when *)
(* K does not divide B*P                                                    *)
C2_StratifiedAlwaysYields ==
    (Stratified /\ SamplingDone /\ AllClassesPresent)
        => /\ pc # "raised"
           /\ DOMAIN ind = Idx(cfg.batchsize, cfg.npix)

(* C3: a stratified sampling step that finds a class without pixels, with a *)
(* nonzero draw count floor(B*P/K), raises: nothing is sampled, nothing is  *)
(* yielded, and the generator is finished                                   *)
EmptyClassWithDraws ==
    /\ (cfg.batchsize * cfg.npix) \div cfg.nclasses > 0
    /\ \E k \in 0 .. (cfg.nclasses - 1) : ClassCount(k) = 0

C3_EmptyClassRaises ==
    [][/\ (pc = "cropped" /\ Stratified /\ EmptyClassWithDraws)
            => (pc' = "raised" /\ yields' = yields /\ ind' = <<>>)
       /\ pc = "raised" => (pc' = "raised" /\ yields' = yields)]_vars

C3_Witness ==
    /\ pc = "raised" /\ err = "empty_population"
    /\ Stratified /\ EmptyClassWithDraws
    /\ yields = pulls - 1

(* C4: with an array confidence other than the identity, the encoded row of *)
(* every sample of class k is row k of the confidence array                 *)
IsIdentity(confidence) ==
    \A r, k \in DOMAIN confidence.mat :
        confidence.mat[r][k] = IF r = k THEN confidence.den ELSE 0

C4_MatrixRowReplaces ==
    (cfg.categorical /\ cfg.confidence.kind = "ndarray"
     /\ ~IsIdentity(cfg.confidence) /\ encoded # <<>>)
        => \A q \in DOMAIN encoded.rows : \A k \in 0 .. (cfg.nclasses - 1) :
             encoded.rows[q][k] * cfg.confidence.den
               = cfg.confidence.mat[pixel_labels[q]][k] * encoded.den

(* C5: every row of an encoded batch sums to 1, for float and for array     *)
(* confidence; a row smoothed with float confidence c is                    *)
(* c * onehot + (1 - c) / K in every entry                                  *)
C5_RowsSumToOne ==
    encoded # <<>>
        => \A q \in DOMAIN encoded.rows :
             /\ SumTo(encoded.rows[q], cfg.nclasses) = encoded.den
             /\ cfg.confidence.kind = "float"
                  => \A k \in 0 .. (cfg.nclasses - 1) :
                       encoded.rows[q][k] * cfg.confidence.den * cfg.nclasses
                         = ((IF pixel_labels[q] = k THEN 1 ELSE 0)
                              * cfg.confidence.num * cfg.nclasses
                            + (cfg.confidence.den - cfg.confidence.num))
                           * encoded.den

C5_Witness ==
    /\ Yielded /\ encoded # <<>>
    /\ cfg.confidence.kind = "float"
    /\ cfg.confidence.num < cfg.confidence.den
    /\ cfg.nclasses > 2

(* C6: random_crop called with cropsize S <= min(H, W), S = H and S = W     *)
(* included, returns (N, S, S) tensors whose image and label windows are    *)
(* the same window [y, y+S) x [x, x+S) of the arguments, inside their bounds *)
C6_CropContract ==
    (crop_args # <<>> /\ cfg.cropsize <= Min(dims.h, dims.w))
        => /\ ~(pc = "raised" /\ err = "empty_range")
           /\ \A b \in DOMAIN sample_images :
                LET x == crop_off.xx[b]
                    y == crop_off.yy[b]
                    S == cfg.cropsize
                IN  /\ 0 <= x /\ x + S <= dims.w
                    /\ 0 <= y /\ y + S <= dims.h
                    /\ sample_images[b] = Window(crop_args.I[b], y, x, S)
                    /\ target_labels[b] = Window(crop_args.L[b], y, x, S)

(* C7: the uniform sampler can draw every pixel: for each slot b and each   *)
(* (row, col) of the batch there is a draw that samples (b, row, col)       *)
C7_FullExtent ==
    (pc = "cropped" /\ Uniform)
        => \A b \in 0 .. (cfg.batchsize - 1) :
           \A p \in Pix(bdims.h, bdims.w) :
             ENABLED (SampleUniform /\ ind'[<<b, 0>>] = <<b, p[1], p[2]>>)

(* C8: with a valid configuration every pull completes a production step    *)
(* and yields one batch, and the generator never finishes.  Valid: the crop *)
(* fits (S <= min(H, W)) and a batch without replacement is no larger than  *)
(* the image set.  A class missing from a stratified batch is the one error *)
(* a valid configuration allows; configurations that zoom, where the zoom   *)
(* of the channel axis can make augment raise, are left aside.              *)
ValidConfig ==
    /\ cfg.hasCrop => cfg.cropsize <= Min(dims.h, dims.w)
    /\ cfg.replace_samples \/ cfg.batchsize <= dims.n
    /\ cfg.zoom_range = 0

C8_NeverFinishes ==
    ValidConfig
        => /\ pc = "raised" => err = "empty_population"
           /\ pc = "suspended" => yields = pulls
           /\ pc \notin {"suspended", "raised"} => yields = pulls - 1

(* C9: no step of a generator changes the caller's images and labels *)
C9_SourceUnchanged ==
    [][images' = images /\ labels' = labels]_vars

C9_Witness ==
    /\ Yielded /\ augmented
    /\ \E b \in DOMAIN im_idx : sample_images[b] # images[im_idx[b]]
    /\ \E b \in DOMAIN im_idx : target_labels[b] # labels[im_idx[b]]

(* C10: the production step calls augment exactly when a flip flag is set   *)
(* or rotation_range, zoom_range or intensity_shift is positive             *)
C10_AugmentIffAnyActive ==
    pc = "augmented"
        => (augmented <=> (cfg.horizontal_flip \/ cfg.vertical_flip
                           \/ cfg.rotation_range > 0 \/ cfg.zoom_range > 0
                           \/ cfg.intensity_shift > 0))

=============================================================================
